---- MODULE Spec2Model ----
(***************************************************************************)
(* Duplicate-counting binary search tree (BSTree<T, Alloc>) with its       *)
(* explicit-stack in-order iterator and the pooled node allocator          *)
(* (BSTree_Allocator over Memory_Pool).                                    *)
(*                                                                         *)
(* T is int; T() is 0.  Node storage is a slot of a Memory_Pool block.     *)
(* Each BSTree object owns an allocator handle alloc_ that is default      *)
(* constructed with the tree and therefore owns a pool of its own; pools   *)
(* are identified with the tree that holds them.  The system heap can      *)
(* hand out HeapBlocks slot arrays; make_unique fails beyond that.         *)
(* Part of the heap may be held by the rest of the process (reserved).     *)
(* The depth-guarded Insert of the version without an allocator is         *)
(* modelled beside it (InsertDepth).                                       *)
(***************************************************************************)
EXTENDS Integers, Sequences, FiniteSets, TLC

\* nullptr
NULL == 0
\* T(): the default value of the element type, rejected by Insert
SENTINEL == 0

\* ---- bounds of the model ----
\* element values are 1..MaxVal (plus the sentinel)
MaxVal == 3
\* slots per pool block (block_count_)
BlockCount == 2
\* slot arrays the system heap can supply before make_unique throws
HeapBlocks == 3
\* successful mutating calls recorded in one behaviour
MaxOps == 4
\* pointers a client of the pool holds at a time
MaxHeld == 3
\* values inserted in one round by the client that fills, empties and
\* refills a tree
MaxRound == 2
\* recorded calls of the client that runs with a nearly exhausted heap
MaxFailOps == 5

\* size_t arithmetic wraps modulo SIZE_MOD (width reduced to fit TLC's
\* integers; only wrap-around at zero matters here)
SIZE_MOD == 2 ^ 30

Trees == {1, 2}
Values == 1..MaxVal
Addr == 1..(HeapBlocks * BlockCount)
BlockIds == 1..HeapBlocks

VARIABLES
    alive,                      \* alive[t]: the BSTree object t is constructed
    root_,                      \* BSTree::root_
    duplicate_elements_count_,  \* BSTree::duplicate_elements_count_
    total_elements_count_,      \* BSTree::total_elements_count_
    data_, left_, right_, count_, \* Node fields, per slot
    next,                       \* Memory_Pool::Block::next, per slot
    free_list_,                 \* Memory_Pool::free_list_, per pool
    blocks_,                    \* Memory_Pool::blocks_, per pool (block ids)
    slot,                       \* per slot: "none", "free", "used", "deleted"
    aborted,                    \* the process was terminated
    hist,                       \* the calls made so far that returned or changed state
    last,                       \* the last call and its outcome
    reserved,                   \* slot arrays of the heap held by the rest of the process
    budget                      \* how many recorded calls the client makes

treeVars == <<alive, root_, duplicate_elements_count_, total_elements_count_>>
nodeVars == <<data_, left_, right_, count_>>
poolVars == <<next, free_list_, blocks_, slot, reserved>>
vars == <<alive, root_, duplicate_elements_count_, total_elements_count_,
          data_, left_, right_, count_, next, free_list_, blocks_, slot,
          aborted, hist, last, reserved, budget>>

\* The mutable program state as one record, threaded through the recursive
\* member functions.
Mem ==
    [alive |-> alive, root_ |-> root_,
     duplicate_elements_count_ |-> duplicate_elements_count_,
     total_elements_count_ |-> total_elements_count_,
     data_ |-> data_, left_ |-> left_, right_ |-> right_, count_ |-> count_,
     next |-> next, free_list_ |-> free_list_, blocks_ |-> blocks_,
     slot |-> slot, reserved |-> reserved]

Commit(M) ==
    /\ alive' = M.alive
    /\ root_' = M.root_
    /\ duplicate_elements_count_' = M.duplicate_elements_count_
    /\ total_elements_count_' = M.total_elements_count_
    /\ data_' = M.data_
    /\ left_' = M.left_
    /\ right_' = M.right_
    /\ count_' = M.count_
    /\ next' = M.next
    /\ free_list_' = M.free_list_
    /\ blocks_' = M.blocks_
    /\ slot' = M.slot
    /\ reserved' = M.reserved

\* A call returns normally with value ret, or throws err.
Ok(M, ret) == [M |-> M, ret |-> ret, err |-> "none"]
Throw(M, e) == [M |-> M, ret |-> NULL, err |-> e]

\* Recursion deeper than any acyclic chain of slots never returns: the call
\* stack overflows and the process dies.
MaxDepth == Cardinality(Addr) + 1

SetMin(S) == CHOOSE x \in S : \A y \in S : x <= y

\* ------------------------------------------------------------------------
\* Memory_Pool
\* ------------------------------------------------------------------------
BlockSlots(b) == ((b - 1) * BlockCount + 1)..(b * BlockCount)

OwnedBlocks(M, p) == {M.blocks_[p][i] : i \in 1..Len(M.blocks_[p])}

\* slot arrays the heap has not handed out
FreeBlockIds(M) ==
    {b \in BlockIds \ M.reserved : \A q \in Trees : b \notin OwnedBlocks(M, q)}

\* Memory_Pool::Allocate_Block
Allocate_Block(M, p) ==
    IF FreeBlockIds(M) = {}
    THEN Throw(M, "runtime_error")
    ELSE LET b == SetMin(FreeBlockIds(M))
             first == (b - 1) * BlockCount + 1
             lastS == b * BlockCount
             fresh == BlockSlots(b)
         IN Ok([M EXCEPT
                  !.data_ = [a \in Addr |-> IF a \in fresh THEN 0 ELSE @[a]],
                  !.left_ = [a \in Addr |-> IF a \in fresh THEN NULL ELSE @[a]],
                  !.right_ = [a \in Addr |-> IF a \in fresh THEN NULL ELSE @[a]],
                  !.count_ = [a \in Addr |-> IF a \in fresh THEN 0 ELSE @[a]],
                  !.next = [a \in Addr |->
                              IF a \in fresh /\ a < lastS THEN a + 1
                              ELSE IF a = lastS THEN M.free_list_[p]
                              ELSE @[a]],
                  !.free_list_[p] = first,
                  !.blocks_[p] = Append(@, b),
                  !.slot = [a \in Addr |-> IF a \in fresh THEN "free" ELSE @[a]]],
               NULL)

\* hands out the head slot without advancing free_list_
PopFreeStale(M, p) ==
    Ok([M EXCEPT !.slot[M.free_list_[p]] = "used"], M.free_list_[p])

\* Memory_Pool::Allocate, from `Block* block = free_list_` on
PopFree(M, p) ==
    Ok([M EXCEPT !.free_list_[p] = M.next[M.free_list_[p]],
                 !.slot[M.free_list_[p]] = "used"],
       M.free_list_[p])

\* Memory_Pool::Allocate after Allocate_Block() returned or threw
PopAfterGrow(g, p) == IF g.err # "none" THEN g ELSE PopFree(g.M, p)

\* an Allocate that takes a new block whether or not slots are free
PoolAllocateAlwaysGrow(M, p) == PopAfterGrow(Allocate_Block(M, p), p)

\* Memory_Pool::Allocate
PoolAllocate(M, p) ==
    IF M.free_list_[p] = NULL
    THEN PopAfterGrow(Allocate_Block(M, p), p)
    ELSE PopFree(M, p)

\* Memory_Pool::Deallocate
PoolDeallocate(M, p, ptr) ==
    IF ptr = NULL
    THEN Throw(M, "invalid_argument")
    ELSE Ok([M EXCEPT !.next[ptr] = M.free_list_[p],
                      !.free_list_[p] = ptr,
                      !.slot[ptr] = "free"],
            NULL)

\* ------------------------------------------------------------------------
\* BSTree_Allocator (pooled)
\* ------------------------------------------------------------------------
\* an Allocate that serves a request of any size with one slot
AllocateAnySize(M, p, n) == PoolAllocate(M, p)

\* BSTree_Allocator::Allocate
AllocatorAllocate(M, p, n) ==
    IF n # 1 THEN Throw(M, "bad_alloc") ELSE PoolAllocate(M, p)

\* noexcept: an exception that reaches the function boundary terminates
NoExcept(r) == IF r.err # "none" THEN Throw(r.M, "abort") ELSE r

\* BSTree_Allocator::Deallocate
AllocatorDeallocate(M, p, ptr, n) ==
    IF n = 1 THEN NoExcept(PoolDeallocate(M, p, ptr)) ELSE Ok(M, NULL)

\* BSTree_Allocator::Construct with Node(value)
Construct(M, ptr, value) ==
    [M EXCEPT !.data_[ptr] = value, !.left_[ptr] = NULL,
              !.right_[ptr] = NULL, !.count_[ptr] = 0]

\* a comparison that also accepts equal keys
LessOrEqual(a, b) == a <= b

\* a comparison that sends equal keys to the right
GreaterOrEqual(a, b) == a >= b

\* ------------------------------------------------------------------------
\* BSTree: private member functions
\* ------------------------------------------------------------------------
\* value < node->data_ / value > node->data_ / node->data_ == value
Less(a, b) == a < b
Greater(a, b) == a > b
Equal(a, b) == a = b

\* size_t ++ and --
Inc(n) == (n + 1) % SIZE_MOD
Dec(n) == (n + SIZE_MOD - 1) % SIZE_MOD

\* an equal branch that counts the duplicate on every node
CountDuplicateEverywhere(M, node) ==
    [M EXCEPT !.count_ = [a \in Addr |-> IF M.slot[a] = "used" THEN Inc(@[a]) ELSE @[a]]]

\* The equal branch of Insert(Node*, const T&): node->count_++
CountDuplicate(M, node) == [M EXCEPT !.count_[node] = Inc(@)]

\* a node creation that hides a failed allocation from its caller
NewNodeSwallow(a, value) ==
    IF a.err # "none" THEN Ok(a.M, NULL)
    ELSE Ok(Construct(a.M, a.ret, value), a.ret)

\* alloc_.Allocate(1) returned or threw; then alloc_.Construct(new_node,
\* Node(value)).  When it threw, new_node is still nullptr and nothing is
\* released.
NewNode(a, value) ==
    IF a.err # "none" THEN a ELSE Ok(Construct(a.M, a.ret, value), a.ret)

\* node->left_ = Insert(node->left_, value); return node
LinkLeft(r, node) ==
    IF r.err # "none" THEN r ELSE Ok([r.M EXCEPT !.left_[node] = r.ret], node)

\* node->right_ = Insert(node->right_, value); return node
LinkRight(r, node) ==
    IF r.err # "none" THEN r ELSE Ok([r.M EXCEPT !.right_[node] = r.ret], node)

\* BSTree::Insert(Node*, const T&)
RECURSIVE InsertAt(_, _, _, _, _)
InsertAt(M, t, node, value, d) ==
    IF d = 0 THEN Throw(M, "abort")
    ELSE IF node = NULL
    THEN NewNode(AllocatorAllocate(M, t, 1), value)
    ELSE IF Less(value, M.data_[node])
    THEN LinkLeft(InsertAt(M, t, M.left_[node], value, d - 1), node)
    ELSE IF Greater(value, M.data_[node])
    THEN LinkRight(InsertAt(M, t, M.right_[node], value, d - 1), node)
    ELSE Ok(CountDuplicate(M, node), node)

\* a search that descends into the wrong subtree
RECURSIVE SearchAtSwapped(_, _, _, _)
SearchAtSwapped(M, node, value, d) ==
    IF d = 0 THEN Throw(M, "abort")
    ELSE IF node = NULL THEN Ok(M, FALSE)
    ELSE IF Equal(M.data_[node], value) THEN Ok(M, TRUE)
    ELSE IF Less(value, M.data_[node])
    THEN SearchAtSwapped(M, M.right_[node], value, d - 1)
    ELSE SearchAtSwapped(M, M.left_[node], value, d - 1)

\* BSTree::Search(Node*, T)
RECURSIVE SearchAt(_, _, _, _)
SearchAt(M, node, value, d) ==
    IF d = 0 THEN Throw(M, "abort")
    ELSE IF node = NULL THEN Ok(M, FALSE)
    ELSE IF Equal(M.data_[node], value) THEN Ok(M, TRUE)
    ELSE IF Less(value, M.data_[node])
    THEN SearchAt(M, M.left_[node], value, d - 1)
    ELSE SearchAt(M, M.right_[node], value, d - 1)

\* `delete node` on a slot that came from the pool allocator.  The pointer
\* was not produced by a new-expression, so the behaviour is undefined: the
\* call either returns, the slot being lost to the pool (it is never pushed
\* back on a free list), or the heap manager terminates the process.
DeleteOutcomes == {"returns", "abort"}
DeleteNode(M, node, ub) ==
    IF ub = "abort"
    THEN Throw(M, "abort")
    ELSE Ok([M EXCEPT !.slot[node] = "deleted"], NULL)

\* node->count_ > 1 : the node is kept and only its counter drops
HasDuplicates(M, node) == M.count_[node] > 1

\* The child that takes the place of the removed node
Replacement(M, node) ==
    IF M.left_[node] = NULL THEN M.right_[node]
    ELSE IF M.right_[node] = NULL THEN M.left_[node]
    ELSE NULL

\* `delete node; return temp`
Unlink(del, temp) == IF del.err # "none" THEN del ELSE Ok(del.M, temp)

\* --total_elements_count_
DecTotal(M, t) == [M EXCEPT !.total_elements_count_[t] = Dec(@)]

\* --node->count_
DecCount(M, node) == [M EXCEPT !.count_[node] = Dec(@)]

\* BSTree::Remove(Node*, T).  The statements after `return temp` (the
\* successor replacement for a node with two children) are never executed.
RECURSIVE RemoveAt(_, _, _, _, _, _)
RemoveAt(M, t, node, value, ub, d) ==
    IF d = 0 THEN Throw(M, "abort")
    ELSE IF node = NULL THEN Ok(M, NULL)
    ELSE IF Less(value, M.data_[node])
    THEN LinkLeft(RemoveAt(M, t, M.left_[node], value, ub, d - 1), node)
    ELSE IF Greater(value, M.data_[node])
    THEN LinkRight(RemoveAt(M, t, M.right_[node], value, ub, d - 1), node)
    ELSE IF HasDuplicates(M, node)
    THEN Ok(DecTotal(DecCount(M, node), t), node)
    ELSE Unlink(DeleteNode(DecTotal(M, t), node, ub), Replacement(M, node))

\* BSTree::Find_min
RECURSIVE Find_min(_, _, _)
Find_min(M, node, d) ==
    IF d = 0 \/ M.left_[node] = NULL THEN node
    ELSE Find_min(M, M.left_[node], d - 1)

RECURSIVE ClearAt(_, _, _, _)

\* alloc_.Destroy(node); alloc_.Deallocate(node, 1)
ClearSelf(r, t, node) ==
    IF r.err # "none" THEN r ELSE AllocatorDeallocate(r.M, t, node, 1)

\* Clear(node->right_), after Clear(node->left_)
ClearRight(l, t, node, d) ==
    IF l.err # "none" THEN l
    ELSE ClearSelf(ClearAt(l.M, t, l.M.right_[node], d - 1), t, node)

\* BSTree::Clear
ClearAt(M, t, node, d) ==
    IF d = 0 THEN Throw(M, "abort")
    ELSE IF node = NULL THEN Ok(M, NULL)
    ELSE ClearRight(ClearAt(M, t, M.left_[node], d - 1), t, node, d)

\* new_node->count_ = node->count_
CopyCount(M, new_node, node) == [M EXCEPT !.count_[new_node] = M.count_[node]]

\* rethrow after Clear(new_node)
Rethrow(c, e) == IF c.err # "none" THEN c ELSE Throw(c.M, e)

\* The catch (const std::bad_alloc&) block of Copy: Clear(new_node), rethrow.
\* Any other exception leaves Copy as thrown.
CopyCatch(r, t, new_node) ==
    IF r.err = "bad_alloc"
    THEN Rethrow(ClearAt(r.M, t, new_node, MaxDepth), "bad_alloc")
    ELSE r

RECURSIVE CopyAt(_, _, _, _)

\* new_node->right_ = Copy(node->right_) done; new_node->count_ = node->count_
CopyDone(r, t, n, node) ==
    IF r.err # "none" THEN CopyCatch(r, t, n)
    ELSE Ok(CopyCount([r.M EXCEPT !.right_[n] = r.ret], n, node), n)

\* new_node->left_ = Copy(node->left_) done; new_node->right_ = Copy(node->right_)
CopyRight(l, t, n, node, d) ==
    IF l.err # "none" THEN CopyCatch(l, t, n)
    ELSE CopyDone(CopyAt([l.M EXCEPT !.left_[n] = l.ret], t,
                         l.M.right_[node], d - 1),
                  t, n, node)

\* new_node->left_ = Copy(node->left_)
CopyLeft(M1, t, n, node, d) ==
    CopyRight(CopyAt(M1, t, M1.left_[node], d - 1), t, n, node, d)

\* alloc_.Allocate(1) done; alloc_.Construct(new_node, node->data_)
CopyNew(a, t, node, d) ==
    IF a.err # "none" THEN CopyCatch(a, t, NULL)
    ELSE CopyLeft(Construct(a.M, a.ret, a.M.data_[node]), t, a.ret, node, d)

\* a copy that hands back the source node itself
CopyShallow(M, t, node, d) == Ok(M, node)

\* BSTree::Copy
CopyAt(M, t, node, d) ==
    IF d = 0 THEN Throw(M, "abort")
    ELSE IF node = NULL THEN Ok(M, NULL)
    ELSE CopyNew(AllocatorAllocate(M, t, 1), t, node, d)

\* BSTree::Search(T)
Search(M, t, value) == SearchAt(M, M.root_[t], value, MaxDepth)

\* ------------------------------------------------------------------------
\* BSTree::Tree_Iterator
\* ------------------------------------------------------------------------
\* The top of Node_Stack is the last element of the sequence.
Iter(cur, stk) == [current_ |-> cur, Node_Stack |-> stk, err |-> "none"]
IterDead == [current_ |-> NULL, Node_Stack |-> <<>>, err |-> "abort"]

\* a Push_left that stacks the node without its left spine
Push_node(M, stk, node, d) == IF node = NULL THEN stk ELSE Append(stk, node)

\* Tree_Iterator::Push_left
RECURSIVE Push_left(_, _, _, _)
Push_left(M, stk, node, d) ==
    IF d = 0 THEN <<-1>>
    ELSE IF node = NULL THEN stk
    ELSE Push_left(M, Append(stk, node), M.left_[node], d - 1)

\* takes the oldest entry of the stack instead of the newest
PopBottom(stk) ==
    IF stk # <<>> THEN Iter(stk[1], Tail(stk)) ELSE Iter(NULL, stk)

\* current_ = Node_Stack.top(); Node_Stack.pop(); or nullptr on empty stack
PopCurrent(stk) ==
    IF stk # <<>>
    THEN Iter(stk[Len(stk)], SubSeq(stk, 1, Len(stk) - 1))
    ELSE Iter(NULL, stk)

\* Tree_Iterator::Tree_Iterator(Node*)
Tree_Iterator(M, node) ==
    LET stk == Push_left(M, <<>>, node, MaxDepth)
    IN IF stk = <<-1>> THEN IterDead ELSE PopCurrent(stk)

\* Tree_Iterator::operator++
Increment(M, it) ==
    IF it.current_ = NULL
    THEN [it EXCEPT !.err = "out_of_range"]
    ELSE LET stk == IF M.right_[it.current_] # NULL
                    THEN Push_left(M, it.Node_Stack, M.right_[it.current_], MaxDepth)
                    ELSE it.Node_Stack
         IN IF stk = <<-1>> THEN IterDead ELSE PopCurrent(stk)

\* BSTree::begin / BSTree::end
begin(M, t) == Tree_Iterator(M, M.root_[t])
end(M, t) == Tree_Iterator(M, NULL)

\* for (it = begin(); it != end(); ++it): the nodes the iterator is
\* positioned on, in order (NULL closes a walk that never reaches end())
RECURSIVE WalkFrom(_, _, _, _)
WalkFrom(M, t, it, d) ==
    IF it.err # "none" \/ d = 0 THEN <<NULL>>
    ELSE IF it.current_ = end(M, t).current_ THEN <<>>
    ELSE <<it.current_>> \o WalkFrom(M, t, Increment(M, it), d - 1)

WalkNodes(M, t) == WalkFrom(M, t, begin(M, t), MaxDepth)

\* operator* on each position of the walk
Deref(M, a) == IF a = NULL THEN -1 ELSE M.data_[a]
Walk(M, t) ==
    [i \in 1..Len(WalkNodes(M, t)) |-> Deref(M, WalkNodes(M, t)[i])]

\* ------------------------------------------------------------------------
\* Object lifetime
\* ------------------------------------------------------------------------
\* Memory_Pool::Memory_Pool, through BSTree_Allocator::BSTree_Allocator()
NewPool(M, p) == [M EXCEPT !.free_list_[p] = NULL, !.blocks_[p] = <<>>]

\* Memory_Pool::~Memory_Pool: the unique_ptrs in blocks_ release every slot
\* array of the pool
DestroyPool(M, p) ==
    LET gone == UNION {BlockSlots(b) : b \in OwnedBlocks(M, p)}
        Wipe(f) == [a \in Addr |-> IF a \in gone THEN 0 ELSE f[a]]
    IN [M EXCEPT !.data_ = Wipe(@), !.left_ = Wipe(@), !.right_ = Wipe(@),
                 !.count_ = Wipe(@), !.next = Wipe(@),
                 !.slot = [a \in Addr |-> IF a \in gone THEN "none" ELSE @[a]],
                 !.free_list_[p] = NULL, !.blocks_[p] = <<>>]

\* ------------------------------------------------------------------------
\* Calls made by the client
\* ------------------------------------------------------------------------
\* hist entry: member function, object, argument, outcome
Call(op, t, v, res) == [op |-> op, t |-> t, v |-> v, res |-> res]
\* last: member function, object, outcome, pointer returned (pool calls)
Returned(op, t, res, ret) == [op |-> op, t |-> t, res |-> res, ret |-> ret]
Last(op, t, res) == Returned(op, t, res, NULL)

\* The process is terminated inside the call: its objects and its memory
\* cease to exist.
Abort(op, t) ==
    /\ aborted' = TRUE
    /\ last' = Last(op, t, "abort")
    /\ alive' = [x \in Trees |-> FALSE]
    /\ root_' = [x \in Trees |-> NULL]
    /\ duplicate_elements_count_' = [x \in Trees |-> 0]
    /\ total_elements_count_' = [x \in Trees |-> 0]
    /\ data_' = [a \in Addr |-> 0]
    /\ left_' = [a \in Addr |-> NULL]
    /\ right_' = [a \in Addr |-> NULL]
    /\ count_' = [a \in Addr |-> 0]
    /\ next' = [a \in Addr |-> NULL]
    /\ free_list_' = [x \in Trees |-> NULL]
    /\ blocks_' = [x \in Trees |-> <<>>]
    /\ slot' = [a \in Addr |-> "none"]
    /\ reserved' = {}
    /\ hist' = <<>>
    /\ UNCHANGED budget

\* The call returns (state Mok) or throws err (state Merr).  A call that
\* returns, or that throws after changing the program state, is recorded in
\* hist; at most budget such calls are made.
Outcome(op, t, v, err, Mok, Merr) ==
    IF err = "abort" THEN Abort(op, t)
    ELSE IF err = "none"
    THEN /\ Len(hist) < budget
         /\ Commit(Mok)
         /\ hist' = Append(hist, Call(op, t, v, "ok"))
         /\ last' = Last(op, t, "ok")
         /\ UNCHANGED <<aborted, budget>>
    ELSE /\ Merr # Mem => Len(hist) < budget
         /\ Commit(Merr)
         /\ hist' = IF Merr # Mem THEN Append(hist, Call(op, t, v, err)) ELSE hist
         /\ last' = Last(op, t, err)
         /\ UNCHANGED <<aborted, budget>>

\* BSTree::BSTree()
DefaultCtor(t) ==
    /\ ~aborted /\ ~alive[t]
    /\ Outcome("BSTree", t, 0, "none",
               NewPool([Mem EXCEPT !.alive[t] = TRUE, !.root_[t] = NULL,
                                   !.duplicate_elements_count_[t] = 0,
                                   !.total_elements_count_[t] = 0], t),
               Mem)

\* root_ = <the node returned>, or the exception leaves the call
SetRoot(op, t, v, r) ==
    Outcome(op, t, v, r.err, [r.M EXCEPT !.root_[t] = r.ret], r.M)

\* Insert without the check of value against T()
InsertUnchecked(t, value) ==
    /\ ~aborted /\ alive[t]
    /\ SetRoot("Insert", t, value, InsertAt(Mem, t, root_[t], value, MaxDepth))

\* BSTree::Insert(const T&)
Insert(t, value) ==
    /\ ~aborted /\ alive[t]
    /\ IF value = SENTINEL
       THEN Outcome("Insert", t, value, "invalid_argument", Mem, Mem)
       ELSE SetRoot("Insert", t, value,
                    InsertAt(Mem, t, root_[t], value, MaxDepth))

\* the outcome of Search(value), reported to the caller
SearchResult(t, r) ==
    IF r.err # "none" THEN Abort("Search", t)
    ELSE /\ last' = Last("Search", t, IF r.ret THEN "true" ELSE "false")
         /\ UNCHANGED <<treeVars, nodeVars, poolVars, hist, aborted, budget>>

\* BSTree::Search(T)
SearchCall(t, value) ==
    /\ ~aborted /\ alive[t]
    /\ SearchResult(t, Search(Mem, t, value))

\* Remove without the Search that guards it
RemoveUnchecked(t, value, s) ==
    \E ub \in DeleteOutcomes :
        SetRoot("Remove", t, value,
                RemoveAt(Mem, t, root_[t], value, ub, MaxDepth))

\* BSTree::Remove(T), after `if (!Search(value)) throw std::runtime_error`
RemoveFound(t, value, s) ==
    IF s.err # "none" THEN Abort("Remove", t)
    ELSE IF ~s.ret
    THEN Outcome("Remove", t, value, "not_found", Mem, Mem)
    ELSE \E ub \in DeleteOutcomes :
           SetRoot("Remove", t, value,
                   RemoveAt(Mem, t, root_[t], value, ub, MaxDepth))

\* BSTree::Remove(T)
Remove(t, value) ==
    /\ ~aborted /\ alive[t]
    /\ RemoveFound(t, value, Search(Mem, t, value))

\* The members of a BSTree under construction: alloc_ is default constructed
\* (a pool of its own), root_ is nullptr, the counters are taken from other.
CtorInit(M, t, other) ==
    NewPool([M EXCEPT
               !.root_[t] = NULL,
               !.duplicate_elements_count_[t] = M.duplicate_elements_count_[other],
               !.total_elements_count_[t] = M.total_elements_count_[other]], t)

\* The constructor body threw: the members already constructed (alloc_,
\* hence its pool) are destroyed and no object comes into being.
CtorUnwind(M, t) ==
    [DestroyPool(M, t) EXCEPT !.root_[t] = NULL,
                              !.duplicate_elements_count_[t] = 0,
                              !.total_elements_count_[t] = 0]

\* BSTree::BSTree(const BSTree &other), the body after root_ = Copy(other.root_)
CopyCtorBody(t, other, r) ==
    Outcome("CopyCtor", t, other, r.err,
            [r.M EXCEPT !.alive[t] = TRUE, !.root_[t] = r.ret,
                !.duplicate_elements_count_[t] = r.M.duplicate_elements_count_[other],
                !.total_elements_count_[t] = r.M.total_elements_count_[other]],
            CtorUnwind(r.M, t))

\* root_ = Copy(other.root_)
CopyInto(M, t, other) == CopyAt(M, t, M.root_[other], MaxDepth)

\* BSTree::BSTree(const BSTree &other)
CopyCtor(t, other) ==
    /\ ~aborted /\ ~alive[t] /\ alive[other] /\ t # other
    /\ CopyCtorBody(t, other, CopyInto(CtorInit(Mem, t, other), t, other))

\* BSTree::BSTree(BSTree &&temp)
MoveCtor(t, temp) ==
    /\ ~aborted /\ ~alive[t] /\ alive[temp] /\ t # temp
    /\ Outcome("MoveCtor", t, temp, "none",
               [CtorInit(Mem, t, temp) EXCEPT
                   !.alive[t] = TRUE,
                   !.root_ = [@ EXCEPT ![t] = Mem.root_[temp], ![temp] = NULL]],
               Mem)

\* Clear(root_)
ClearTree(M, t) == ClearAt(M, t, M.root_[t], MaxDepth)

\* Copy(other.root_) after Clear(root_)
CopyAfterClear(c, t, other) ==
    IF c.err # "none" THEN c ELSE CopyInto(c.M, t, other)

\* BSTree::operator=(const BSTree &other)
CopyAssign(t, other) ==
    /\ ~aborted /\ alive[t] /\ alive[other]
    /\ IF t = other
       THEN Outcome("CopyAssign", t, other, "none", Mem, Mem)
       ELSE SetRoot("CopyAssign", t, other,
                    CopyAfterClear(ClearTree(Mem, t), t, other))

\* a move assignment that leaves the source's root in place
TakeRootKeepSource(c, t, temp) ==
    Outcome("MoveAssign", t, temp, NoExcept(c).err,
            [c.M EXCEPT !.root_[t] = c.M.root_[temp]], c.M)

\* root_ = temp.root_; temp.root_ = nullptr, after Clear(root_)
TakeRoot(c, t, temp) ==
    Outcome("MoveAssign", t, temp, NoExcept(c).err,
            [c.M EXCEPT !.root_ = [@ EXCEPT ![t] = c.M.root_[temp],
                                            ![temp] = NULL]],
            c.M)

\* BSTree::operator=(BSTree &&temp)
MoveAssign(t, temp) ==
    /\ ~aborted /\ alive[t] /\ alive[temp]
    /\ IF t = temp
       THEN Outcome("MoveAssign", t, temp, "none", Mem, Mem)
       ELSE TakeRoot(ClearTree(Mem, t), t, temp)

\* The first tree is constructed; res of the heap's slot arrays are held by
\* the rest of the process; the client is going to make n recorded calls.
InitState(res, n) ==
    /\ alive = [t \in Trees |-> t = 1]
    /\ root_ = [t \in Trees |-> NULL]
    /\ duplicate_elements_count_ = [t \in Trees |-> 0]
    /\ total_elements_count_ = [t \in Trees |-> 0]
    /\ data_ = [a \in Addr |-> 0]
    /\ left_ = [a \in Addr |-> NULL]
    /\ right_ = [a \in Addr |-> NULL]
    /\ count_ = [a \in Addr |-> 0]
    /\ next = [a \in Addr |-> NULL]
    /\ free_list_ = [t \in Trees |-> NULL]
    /\ blocks_ = [t \in Trees |-> <<>>]
    /\ slot = [a \in Addr |-> "none"]
    /\ aborted = FALSE
    /\ hist = <<>>
    /\ last = Last("BSTree", 1, "ok")
    /\ reserved = res
    /\ budget = n

Init == InitState({}, MaxOps)

\* A client working on one tree
Next ==
    \/ \E t \in Trees, v \in Values \cup {SENTINEL} : Insert(t, v)
    \/ \E t \in Trees, v \in Values \cup {SENTINEL} : SearchCall(t, v)
    \/ \E t \in Trees, v \in Values \cup {SENTINEL} : Remove(t, v)

Spec == Init /\ [][Next]_vars

\* A client that also constructs a second tree and assigns between the two
NextCopy ==
    \/ \E t \in Trees : DefaultCtor(t)
    \/ \E t \in Trees, v \in Values : Insert(t, v)
    \/ \E t \in Trees, v \in Values : Remove(t, v)
    \/ \E t \in Trees, o \in Trees : CopyCtor(t, o)
    \/ \E t \in Trees, o \in Trees : MoveCtor(t, o)
    \/ \E t \in Trees, o \in Trees : CopyAssign(t, o)
    \/ \E t \in Trees, o \in Trees : MoveAssign(t, o)

SpecCopy == Init /\ [][NextCopy]_vars

\* ------------------------------------------------------------------------
\* A client of Memory_Pool alone: it holds at most MaxHeld pointers and gives
\* back only pointers it holds (or nullptr)
\* ------------------------------------------------------------------------
InUse(p) ==
    {a \in UNION {BlockSlots(b) : b \in OwnedBlocks(Mem, p)} : slot[a] = "used"}

PoolReturn(op, p, r) ==
    /\ Commit(r.M)
    /\ last' = Returned(op, p, IF r.err = "none" THEN "ok" ELSE r.err, r.ret)
    /\ UNCHANGED <<hist, aborted, budget>>

\* Memory_Pool::Allocate()
PoolAllocateCall(p) ==
    /\ ~aborted /\ alive[p]
    /\ Cardinality(InUse(p)) < MaxHeld
    /\ PoolReturn("Allocate", p, PoolAllocate(Mem, p))

\* Memory_Pool::Deallocate(T*)
PoolDeallocateCall(p, ptr) ==
    /\ ~aborted /\ alive[p]
    /\ PoolReturn("Deallocate", p, PoolDeallocate(Mem, p, ptr))

NextPool ==
    \/ \E p \in Trees : PoolAllocateCall(p)
    \/ \E p \in Trees : \E ptr \in InUse(p) \cup {NULL} : PoolDeallocateCall(p, ptr)

SpecPool == Init /\ [][NextPool]_vars

\* ========================================================================
\* Properties
\* ========================================================================
\* the nodes reachable from node through left_ and right_
RECURSIVE Reach(_, _, _)
Reach(M, node, d) ==
    IF node = NULL \/ d = 0 THEN {}
    ELSE {node} \cup Reach(M, M.left_[node], d - 1)
                \cup Reach(M, M.right_[node], d - 1)

Nodes(M, t) == Reach(M, M.root_[t], MaxDepth)

\* the elements of a set of integers in ascending order
RECURSIVE Ascending(_)
Ascending(S) ==
    IF S = {} THEN <<>> ELSE <<SetMin(S)>> \o Ascending(S \ {SetMin(S)})

\* a sequence without its occurrences of v
RECURSIVE Without(_, _)
Without(s, v) ==
    IF s = <<>> THEN <<>>
    ELSE IF Head(s) = v THEN Without(Tail(s), v)
    ELSE <<Head(s)>> \o Without(Tail(s), v)

\* the duplicate counters met by the in-order walk
WalkCounts(M, t) ==
    [i \in 1..Len(WalkNodes(M, t)) |->
        IF WalkNodes(M, t)[i] = NULL THEN -1 ELSE M.count_[WalkNodes(M, t)[i]]]

\* what a client can observe of tree t by iterating
Content(M, t) == <<Walk(M, t), WalkCounts(M, t)>>

\* the element counters of tree t
Counters(M, t) ==
    <<M.duplicate_elements_count_[t], M.total_elements_count_[t]>>

\* calls recorded in hist
Returns(op, t, v) == Call(op, t, v, "ok")
OkCalls(op, t) ==
    {i \in 1..Len(hist) : hist[i].op = op /\ hist[i].t = t /\ hist[i].res = "ok"}
InsertOnly(t) ==
    \A i \in 1..Len(hist) :
        hist[i].op = "Insert" /\ hist[i].t = t /\ hist[i].res = "ok"
Inserted(t) == {hist[i].v : i \in OkCalls("Insert", t)}

\* the node of tree t that holds value (NULL if none on the search path)
RECURSIVE Locate(_, _, _, _)
Locate(M, node, value, d) ==
    IF node = NULL \/ d = 0 THEN NULL
    ELSE IF M.data_[node] = value THEN node
    ELSE IF value < M.data_[node] THEN Locate(M, M.left_[node], value, d - 1)
    ELSE Locate(M, M.right_[node], value, d - 1)

Holder(t, value) == Locate(Mem, root_[t], value, MaxDepth)

\* C1: a tree built from the empty tree by successful Inserts only is
\* iterated from begin() to end() as the distinct inserted values in
\* strictly ascending order, whatever the order and multiplicity of the
\* insertions.
C1_InOrderIteration ==
    \A t \in Trees :
        (alive[t] /\ InsertOnly(t)) => Walk(Mem, t) = Ascending(Inserted(t))

C1_Witness ==
    /\ alive[1] /\ InsertOnly(1)
    /\ Len(hist) = 4 /\ Cardinality(Inserted(1)) = 3
    /\ hist[1].v > hist[2].v
    /\ Walk(Mem, 1) = Ascending(Inserted(1))

\* C2: total_elements_count_ equals the number of Insert calls that
\* returned minus the number of Remove calls that returned.
C2_TotalCount ==
    \A t \in Trees :
        alive[t] =>
            total_elements_count_[t] =
                Cardinality(OkCalls("Insert", t)) - Cardinality(OkCalls("Remove", t))

\* hist is: calls on other values, then k returning Insert(v) on a tree
\* without v, then j returning Remove(v)
InsertedThenRemoved(t, v, k, j) ==
    /\ Len(hist) >= k + j
    /\ \A i \in 1..Len(hist) :
          IF i <= Len(hist) - k - j THEN hist[i].t = t /\ hist[i].v # v
          ELSE IF i <= Len(hist) - j THEN hist[i] = Returns("Insert", t, v)
          ELSE hist[i] = Returns("Remove", t, v)

\* C3: after k Inserts of a value v that was not in the tree, Search(v) is
\* true after j < k of the following Removes of v (so every one of the k
\* Removes finds v) and false after the k-th.
C3_InsertRemoveBalance ==
    \A t \in Trees, v \in Values :
        \A k \in 1..MaxOps, j \in 0..MaxOps :
            (alive[t] /\ j <= k /\ InsertedThenRemoved(t, v, k, j))
                => (Search(Mem, t, v).ret <=> j < k)

\* a returning Remove(v) that takes the node holding v out of the tree while
\* the node has two children
RemovesTwoChildNode(t, v) ==
    /\ hist' = Append(hist, Returns("Remove", t, v))
    /\ Holder(t, v) # NULL
    /\ left_[Holder(t, v)] # NULL /\ right_[Holder(t, v)] # NULL
    /\ ~HasDuplicates(Mem, Holder(t, v))

\* C4: structural removal of a node with two children puts the in-order
\* successor's value and counter in the node's place and removes the
\* successor from the right subtree, so the traversal loses only v.
C4_TwoChildrenRemoval ==
    [][\A t \in Trees, v \in Values :
          RemovesTwoChildNode(t, v) =>
              /\ Holder(t, v) \in Nodes(Mem', t)
              /\ data_'[Holder(t, v)] =
                     data_[Find_min(Mem, right_[Holder(t, v)], MaxDepth)]
              /\ count_'[Holder(t, v)] =
                     count_[Find_min(Mem, right_[Holder(t, v)], MaxDepth)]
              /\ Walk(Mem', t) = Without(Walk(Mem, t), v)]_vars

\* C5: Remove(v) on a tree where Search(v) is false throws the not-found
\* error and leaves root, counters, every node and the pool unchanged.
C5_RemoveAbsent ==
    [][\A t \in Trees, v \in Values \cup {SENTINEL} :
          (Remove(t, v) /\ ~Search(Mem, t, v).ret) =>
              /\ last' = Last("Remove", t, "not_found")
              /\ UNCHANGED <<treeVars, nodeVars, poolVars, hist>>]_vars

C5_Witness ==
    /\ last = Last("Remove", 1, "not_found")
    /\ Cardinality(Nodes(Mem, 1)) >= 2

\* C6: Insert(T()) throws invalid_argument and leaves the tree and the pool
\* unchanged.
C6_InsertSentinel ==
    [][\A t \in Trees :
          Insert(t, SENTINEL) =>
              /\ last' = Last("Insert", t, "invalid_argument")
              /\ UNCHANGED <<treeVars, nodeVars, poolVars, hist>>]_vars

C6_Witness ==
    /\ last = Last("Insert", 1, "invalid_argument")
    /\ Cardinality(Nodes(Mem, 1)) >= 2

\* Search(v) answers whether a node reachable from the root holds v
SearchFinds(t, v) ==
    /\ Search(Mem, t, v).err = "none"
    /\ Search(Mem, t, v).ret <=> \E a \in Nodes(Mem, t) : data_[a] = v

\* C7: Search(v) returns true exactly when some node reachable from the
\* root holds v, and a call of Search changes nothing in the tree, its
\* nodes or the pool.
C7_Search ==
    /\ [](\A t \in Trees, v \in Values \cup {SENTINEL} :
             alive[t] => SearchFinds(t, v))
    /\ [][\A t \in Trees, v \in Values \cup {SENTINEL} :
             SearchCall(t, v) =>
                 /\ last'.res = (IF \E a \in Nodes(Mem, t) : data_[a] = v
                                 THEN "true" ELSE "false")
                 /\ UNCHANGED <<treeVars, nodeVars, poolVars, hist>>]_vars

C7_Witness ==
    /\ last = Last("Search", 1, "true")
    /\ Cardinality(Nodes(Mem, 1)) >= 3
    /\ right_[root_[1]] # NULL /\ left_[root_[1]] # NULL

\* calls recorded in hist after position i are Insert or Remove
OnlyInsertRemoveAfter(i) ==
    \A k \in (i + 1)..Len(hist) : hist[k].op \in {"Insert", "Remove"}

\* tree d was copy-constructed from s, and since then the client has only
\* called Insert and Remove
CopiedFrom(d, s) ==
    \E i \in 1..Len(hist) :
        hist[i] = Returns("CopyCtor", d, s) /\ OnlyInsertRemoveAfter(i)

\* the step is a call of Insert or Remove on tree t that returns
InsertOrRemoveReturns(t) ==
    \E v \in Values :
        \/ hist' = Append(hist, Returns("Insert", t, v))
        \/ hist' = Append(hist, Returns("Remove", t, v))

\* C8: right after BSTree(const BSTree&) the copy is iterated as the same
\* values with the same duplicate counters as the source and shares no node
\* with it; afterwards Insert and Remove on either of the two leave the
\* traversal and the counters of the other one unchanged.
C8_CopyIndependence ==
    [][\A d \in Trees, s \in Trees :
          /\ hist' = Append(hist, Returns("CopyCtor", d, s)) =>
                /\ Content(Mem', d) = Content(Mem, s)
                /\ Content(Mem', s) = Content(Mem, s)
                /\ Nodes(Mem', d) \cap Nodes(Mem', s) = {}
          /\ (CopiedFrom(d, s) /\ InsertOrRemoveReturns(d)) =>
                /\ Content(Mem', s) = Content(Mem, s)
                /\ Counters(Mem', s) = Counters(Mem, s)
          /\ (CopiedFrom(d, s) /\ InsertOrRemoveReturns(s)) =>
                /\ Content(Mem', d) = Content(Mem, d)
                /\ Counters(Mem', d) = Counters(Mem, d)]_vars

C8_Witness ==
    /\ CopiedFrom(2, 1)
    /\ Len(hist) = 4 /\ hist[4].t = 2 /\ hist[4].res = "ok"
    /\ Walk(Mem, 1) # <<>>
    /\ Walk(Mem, 2) # Walk(Mem, 1)

\* the step is a move construction or move assignment of D from S that
\* returns
MovesInto(D, S) ==
    \/ hist' = Append(hist, Returns("MoveCtor", D, S))
    \/ hist' = Append(hist, Returns("MoveAssign", D, S))

\* C9: after BSTree(BSTree&&) or operator=(BSTree&&) from S into D, D # S,
\* the root of S is empty, Search on S is false for every value, and D is
\* iterated as the values and duplicate counters S had before.
C9_MoveTransfers ==
    [][\A D \in Trees, S \in Trees :
          (D # S /\ MovesInto(D, S)) =>
              /\ root_'[S] = NULL
              /\ \A v \in Values : ~Search(Mem', S, v).ret
              /\ Content(Mem', D) = Content(Mem, S)]_vars

C9_Witness ==
    /\ Len(hist) = 4
    /\ hist[2] = Returns("MoveCtor", 2, 1)
    /\ hist[4] = Returns("MoveAssign", 1, 2)
    /\ root_[2] = NULL /\ Walk(Mem, 1) # <<>>

\* the slots of the blocks pool p owns
PoolSlots(M, p) == UNION {BlockSlots(b) : b \in OwnedBlocks(M, p)}

\* the slots met from a along next (NULL closes a chain that does not end)
RECURSIVE FreeChain(_, _, _)
FreeChain(M, a, d) ==
    IF a = NULL THEN <<>>
    ELSE IF d = 0 THEN <<NULL>>
    ELSE <<a>> \o FreeChain(M, M.next[a], d - 1)

FreeList(M, p) == FreeChain(M, M.free_list_[p], Cardinality(Addr))

OnFreeList(M, p, a) == \E i \in 1..Len(FreeList(M, p)) : FreeList(M, p)[i] = a

\* the free list of pool p ends, holds no slot twice, and holds exactly the
\* slots of the pool's blocks that are not in use
PoolPartition(M, p) ==
    /\ ~OnFreeList(M, p, NULL)
    /\ \A i, j \in 1..Len(FreeList(M, p)) :
          FreeList(M, p)[i] = FreeList(M, p)[j] => i = j
    /\ \A i \in 1..Len(FreeList(M, p)) : FreeList(M, p)[i] \in PoolSlots(M, p)
    /\ \A a \in PoolSlots(M, p) : (M.slot[a] = "used") <=> ~OnFreeList(M, p, a)

SlotsInUse(M, p) == {a \in PoolSlots(M, p) : ~OnFreeList(M, p, a)}

\* C11: every structural removal gives the node's slot back to the
\* allocator, so after any sequence of Insert and Remove the number of pool
\* slots in use equals the number of nodes reachable from the root.
C11_SlotsMatchNodes ==
    \A t \in Trees :
        alive[t] =>
            Cardinality(SlotsInUse(Mem, t)) = Cardinality(Nodes(Mem, t))

\* ------------------------------------------------------------------------
\* A client that inserts N distinct values, removes them, and inserts N new
\* distinct values (N <= MaxRound)
\* ------------------------------------------------------------------------
RoundValues == 1..(2 * MaxRound)

\* h is a beginning of: N returning Inserts of distinct values, N returning
\* Removes of distinct values, N returning Inserts of further distinct values
IsRounds(h, N) ==
    /\ Len(h) <= 3 * N
    /\ \A i \in 1..Len(h) :
          /\ h[i].t = 1 /\ h[i].res = "ok"
          /\ h[i].op = (IF i > N /\ i <= 2 * N THEN "Remove" ELSE "Insert")
    /\ \A i, j \in 1..Len(h) :
          (i < j /\ h[i].op = h[j].op) => h[i].v # h[j].v

InRounds(h) == \E N \in 1..MaxRound : IsRounds(h, N)

RoundInsert(v) == Insert(1, v) /\ (aborted' \/ InRounds(hist'))

RoundRemove(v) == Remove(1, v) /\ (aborted' \/ InRounds(hist'))

InitRounds == InitState({}, 3 * MaxRound)

NextRounds ==
    \/ \E v \in RoundValues : RoundInsert(v)
    \/ \E v \in RoundValues : RoundRemove(v)

SpecRounds == InitRounds /\ [][NextRounds]_vars

\* C12: after inserting N distinct values, removing all N and inserting N
\* new distinct values the pool has grown by no more blocks than after the
\* first N insertions.  blocks_ only ever grows, so this says that no call
\* after the first round adds a block.
C12_SecondRoundReusesSlots ==
    [][\A N \in 1..MaxRound :
          (IsRounds(hist', N) /\ Len(hist') > Len(hist) /\ Len(hist) >= N)
              => Len(blocks_'[1]) = Len(blocks_[1])]_vars

\* ------------------------------------------------------------------------
\* A client that inserts and copies while part of the heap is in use
\* elsewhere, so that block growth can fail
\* ------------------------------------------------------------------------
InitFail ==
    \E k \in 0..HeapBlocks :
        InitState({b \in BlockIds : b > HeapBlocks - k}, MaxFailOps)

NextFail ==
    \/ \E t \in Trees : DefaultCtor(t)
    \/ \E t \in Trees, v \in Values : Insert(t, v)
    \/ \E t \in Trees, o \in Trees : CopyCtor(t, o)
    \/ \E t \in Trees, o \in Trees : CopyAssign(t, o)

SpecFail == InitFail /\ [][NextFail]_vars

\* Insert(value) on tree t needs a new node and the allocator cannot
\* supply one
InsertAllocationFails(t, value) ==
    /\ ~Search(Mem, t, value).ret
    /\ AllocatorAllocate(Mem, t, 1).err # "none"

\* C13: when the node allocation of Insert(v) fails, at whatever depth of
\* the descent, the failure reaches the caller and root, shape, values,
\* duplicate counters, tree counters and every child pointer are as before.
C13_InsertFailureLeavesTree ==
    [][\A t \in Trees, v \in Values :
          (Insert(t, v) /\ InsertAllocationFails(t, v)) =>
              /\ last' = Last("Insert", t, "runtime_error")
              /\ UNCHANGED <<treeVars, nodeVars>>]_vars

C13_Witness ==
    /\ last = Last("Insert", 1, "runtime_error")
    /\ Cardinality(Nodes(Mem, 1)) = 2
    /\ left_[root_[1]] = NULL

\* the slots in use
Used(M) == {a \in Addr : M.slot[a] = "used"}

\* the step is a copy assignment to tree t in which Copy throws
CopyAssignFails(t) ==
    /\ \E o \in Trees : CopyAssign(t, o)
    /\ last' = Last("CopyAssign", t, "runtime_error")

\* C14: when an allocation fails part-way through Copy, every node
\* allocated during that copy is given back to the allocator before the
\* failure reaches the caller: no slot is in use that was not in use when
\* Copy began (after the Clear of the assignment).
C14_FailedCopyReleasesNodes ==
    [][\A t \in Trees :
          CopyAssignFails(t) =>
              Used(Mem') \subseteq Used(ClearTree(Mem, t).M)]_vars

\* C15: when Copy fails during copy assignment the target's root is empty
\* or leads only to live nodes, none of them a node the preceding Clear
\* has freed.
C15_FailedAssignKeepsRootValid ==
    [][\A t \in Trees :
          CopyAssignFails(t) =>
              \A a \in Nodes(Mem', t) :
                  slot'[a] = "used" /\ a \notin Nodes(Mem, t)]_vars

\* ------------------------------------------------------------------------
\* The error-handling version of the tree without an allocator: nodes come
\* from operator new, and Insert(Node*, T, size_t depth) carries a depth
\* guard.
\* ------------------------------------------------------------------------
\* const size_t MAX_DEPTH (1000 in the source, scaled down)
MAX_DEPTH == 1
\* the default argument of Insert(Node *node, T value, size_t depth = 0)
DefaultDepth == 0

\* new Node(value): storage the heap has never handed out
OperatorNew(M, value) ==
    IF \A a \in Addr : M.slot[a] # "none"
    THEN Throw(M, "bad_alloc")
    ELSE LET a == SetMin({x \in Addr : M.slot[x] = "none"})
         IN Ok(Construct([M EXCEPT !.slot[a] = "used"], a, value), a)

\* BSTree::Insert(Node*, T, size_t depth); the recursive calls name no
\* depth, so the callee receives the default argument
RECURSIVE InsertDepth(_, _, _, _, _)
InsertDepth(M, node, value, depth, d) ==
    IF d = 0 THEN Throw(M, "abort")
    ELSE IF depth > MAX_DEPTH THEN Throw(M, "runtime_error")
    ELSE IF node = NULL THEN OperatorNew(M, value)
    ELSE IF Less(value, M.data_[node])
    THEN LinkLeft(InsertDepth(M, M.left_[node], value, DefaultDepth, d - 1), node)
    ELSE IF Greater(value, M.data_[node])
    THEN LinkRight(InsertDepth(M, M.right_[node], value, DefaultDepth, d - 1), node)
    ELSE Ok(CountDuplicate(M, node), node)

\* BSTree::Insert(T) of the error-handling version
InsertGuarded(t, value) ==
    /\ ~aborted /\ alive[t]
    /\ IF value = SENTINEL
       THEN Outcome("Insert", t, value, "invalid_argument", Mem, Mem)
       ELSE SetRoot("Insert", t, value,
                    InsertDepth(Mem, root_[t], value, DefaultDepth, MaxDepth))

NextDepth ==
    \E t \in Trees, v \in Values \cup {SENTINEL} : InsertGuarded(t, v)

SpecDepth == Init /\ [][NextDepth]_vars

\* the depth of the recursive call that ends the descent for value: the
\* number of nodes passed on the way to the empty place or to the node
\* holding value
RECURSIVE DescentDepth(_, _, _, _)
DescentDepth(M, node, value, d) ==
    IF d = 0 \/ node = NULL \/ M.data_[node] = value THEN 0
    ELSE 1 + DescentDepth(M, IF value < M.data_[node] THEN M.left_[node]
                             ELSE M.right_[node], value, d - 1)

\* C16: Insert fails with a runtime error, adding no node, whenever its
\* descent goes deeper than MAX_DEPTH.
C16_DepthGuard ==
    [][\A t \in Trees, v \in Values :
          (InsertGuarded(t, v) /\ DescentDepth(Mem, root_[t], v, MaxDepth) > MAX_DEPTH)
              => /\ last' = Last("Insert", t, "runtime_error")
                 /\ UNCHANGED <<treeVars, nodeVars>>]_vars

\* ------------------------------------------------------------------------
\* A client that dereferences iterators
\* ------------------------------------------------------------------------
\* ++it applied k times; a throwing ++ ends the sequence
RECURSIVE Advance(_, _, _)
Advance(M, it, k) ==
    IF k = 0 \/ it.err # "none" THEN it ELSE Advance(M, Increment(M, it), k - 1)

\* Tree_Iterator::operator* (operator-> is the same access through a
\* pointer): return current_->data_, with no test of current_.  With
\* current_ == nullptr the behaviour is undefined: the read faults and the
\* process is terminated, or it returns whatever the address holds.
DerefOutcomes == {"returns", "abort"}
Dereference(M, it, ub, junk) ==
    IF it.current_ # NULL THEN Ok(M, M.data_[it.current_])
    ELSE IF ub = "abort" THEN Throw(M, "abort")
    ELSE Ok(M, junk)

DerefReturn(t, r) ==
    IF r.err = "abort" THEN Abort("operator*", t)
    ELSE /\ last' = Returned("operator*", t,
                             IF r.err = "none" THEN "ok" ELSE r.err, r.ret)
         /\ UNCHANGED <<treeVars, nodeVars, poolVars, hist, aborted, budget>>

\* it = begin(); ++it k times; *it
DerefCall(t, k, ub, junk) ==
    /\ ~aborted /\ alive[t]
    /\ Advance(Mem, begin(Mem, t), k).err = "none"
    /\ DerefReturn(t, Dereference(Mem, Advance(Mem, begin(Mem, t), k), ub, junk))

NextIter ==
    \/ \E t \in Trees, v \in Values : Insert(t, v)
    \/ \E t \in Trees, k \in 0..MaxVal, ub \in DerefOutcomes,
          junk \in Values \cup {SENTINEL} : DerefCall(t, k, ub, junk)

SpecIter == Init /\ [][NextIter]_vars

\* the iterator reached by k increments from begin() is exhausted
Exhausted(M, t, k) ==
    /\ Advance(M, begin(M, t), k).err = "none"
    /\ Advance(M, begin(M, t), k).current_ = end(M, t).current_

\* C17: dereferencing an iterator in the exhausted state throws
\* out_of_range and reads no node.
C17_DerefExhaustedThrows ==
    [][\A t \in Trees, k \in 0..MaxVal, ub \in DerefOutcomes,
          junk \in Values \cup {SENTINEL} :
          (DerefCall(t, k, ub, junk) /\ Exhausted(Mem, t, k))
              => last' = Last("operator*", t, "out_of_range")]_vars

\* ------------------------------------------------------------------------
\* Allocator handles
\* ------------------------------------------------------------------------
\* BSTree_Allocator(): the handle owns a new pool; the handle alloc_ of tree
\* t holds the pool identified with t
DefaultHandle(p) == [pool_ |-> p]
alloc_(t) == DefaultHandle(t)

\* BSTree_Allocator(const BSTree_Allocator<U>&): the copy shares the pool
CopyHandle(other) == [pool_ |-> other.pool_]

\* operator==(const BSTree_Allocator<T>&, const BSTree_Allocator<U>&) and
\* operator!=
HandleEq(a, b) == TRUE
HandleNotEq(a, b) == FALSE

\* a slot allocated through a may be given back through b
Interchangeable(a, b) == a.pool_ = b.pool_

\* the handles that exist: alloc_ of each live tree and copies of them
Handles == {alloc_(t) : t \in {x \in Trees : alive[x]}}
              \cup {CopyHandle(alloc_(t)) : t \in {x \in Trees : alive[x]}}

\* C18: two allocator handles compare equal if and only if they share the
\* same Memory_Pool; independently default-constructed handles do not
\* compare equal.
C18_HandleEquality ==
    \A a \in Handles, b \in Handles :
        /\ HandleEq(a, b) <=> Interchangeable(a, b)
        /\ HandleNotEq(a, b) <=> ~Interchangeable(a, b)

\* ------------------------------------------------------------------------
\* A client of BSTree_Allocator alone: it asks for n objects at a time,
\* holds at most MaxHeld pointers and gives back only pointers it holds (or
\* nullptr)
\* ------------------------------------------------------------------------
\* the largest n the client passes to Allocate and Deallocate
MaxRequest == 2

\* BSTree_Allocator::Allocate(n)
AllocatorAllocateCall(p, n) ==
    /\ ~aborted /\ alive[p]
    /\ Cardinality(InUse(p)) < MaxHeld
    /\ PoolReturn("AllocatorAllocate", p, AllocatorAllocate(Mem, p, n))

AllocatorReturn(op, p, r) ==
    IF r.err = "abort" THEN Abort(op, p) ELSE PoolReturn(op, p, r)

\* BSTree_Allocator::Deallocate(ptr, n)
AllocatorDeallocateCall(p, ptr, n) ==
    /\ ~aborted /\ alive[p]
    /\ AllocatorReturn("AllocatorDeallocate", p, AllocatorDeallocate(Mem, p, ptr, n))

NextAlloc ==
    \/ \E p \in Trees, n \in 0..MaxRequest : AllocatorAllocateCall(p, n)
    \/ \E p \in Trees, n \in 0..MaxRequest :
          \E ptr \in InUse(p) \cup {NULL} : AllocatorDeallocateCall(p, ptr, n)

SpecAlloc == Init /\ [][NextAlloc]_vars

\* C19: Allocate(n) with n # 1 (n = 0 included) throws and leaves the
\* pool's free list and block list as they were; Allocate(1) returns one
\* slot of the pool that was not in use and is in use afterwards, and no
\* other slot changes hands.
C19_AllocateOneOnly ==
    [][\A p \in Trees, n \in 0..MaxRequest :
          AllocatorAllocateCall(p, n) =>
              IF n # 1
              THEN /\ last' = Returned("AllocatorAllocate", p, "bad_alloc", NULL)
                   /\ free_list_' = free_list_
                   /\ blocks_' = blocks_
                   /\ slot' = slot
              ELSE /\ last'.res = "ok"
                   /\ last'.ret \in PoolSlots(Mem', p)
                   /\ slot[last'.ret] # "used"
                   /\ Used(Mem') = Used(Mem) \cup {last'.ret}
                   /\ ~OnFreeList(Mem', p, last'.ret)]_vars

C19_Witness ==
    /\ last = Returned("AllocatorAllocate", 1, "bad_alloc", NULL)
    /\ Cardinality(InUse(1)) = 2
    /\ free_list_[1] # NULL

\* every node of tree t is greater than all values of its left subtree and
\* less than all values of its right subtree
Ordered(M, t) ==
    \A n \in Nodes(M, t) :
        /\ \A a \in Reach(M, M.left_[n], MaxDepth) : M.data_[a] < M.data_[n]
        /\ \A a \in Reach(M, M.right_[n], MaxDepth) : M.data_[a] > M.data_[n]

\* C20: after any sequence of Insert and Remove calls every node reachable
\* from the root satisfies the BST ordering, strictly on both sides, so no
\* value is held by two nodes of the tree.
C20_BSTOrdering ==
    \A t \in Trees :
        alive[t] =>
            /\ Ordered(Mem, t)
            /\ \A a, b \in Nodes(Mem, t) : data_[a] = data_[b] => a = b

C20_Witness ==
    /\ last = Last("Remove", 1, "ok")
    /\ Len(hist) = 4 /\ hist[4].op = "Remove"
    /\ Cardinality(Nodes(Mem, 1)) = 2
    /\ right_[root_[1]] # NULL
    /\ data_[right_[root_[1]]] = MaxVal
    /\ Ordered(Mem, 1)

\* the logical insertions held below node: one per node plus the node's
\* duplicate counter
RECURSIVE LogicalCount(_, _, _)
LogicalCount(M, node, d) ==
    IF node = NULL \/ d = 0 THEN 0
    ELSE 1 + M.count_[node] + LogicalCount(M, M.left_[node], d - 1)
                            + LogicalCount(M, M.right_[node], d - 1)

\* the step is a copy or move, by constructor or assignment, from tree o to
\* tree t that returns
CopyOrMoveReturns(t, o) ==
    \E op \in {"CopyCtor", "MoveCtor", "CopyAssign", "MoveAssign"} :
        hist' = Append(hist, Call(op, t, o, "ok"))

\* C21: after copy construction, copy assignment, move construction and
\* move assignment the source and the target each have
\* total_elements_count_ equal to the logical insertions reachable from
\* their own root.
C21_CountersFollowCopies ==
    [][\A t \in Trees, o \in Trees :
          CopyOrMoveReturns(t, o) =>
              \A x \in {t, o} :
                  total_elements_count_'[x] =
                      LogicalCount(Mem', root_'[x], MaxDepth)]_vars

\* ------------------------------------------------------------------------
\* A client of Memory_Pool for which the growth of the block list itself
\* (the reallocation inside blocks_.emplace_back) may fail
\* ------------------------------------------------------------------------
GrowOutcomes == {"ok", "bad_alloc"}

\* blocks_.emplace_back threw: free_list_ = &new_block[0] has been executed,
\* the unwinding destroys new_block and with it the slot array, blocks_ is
\* as before, and the handler turns the bad_alloc into a runtime_error
EmplaceBackThrows(g, M, p) ==
    IF g.err # "none" THEN g
    ELSE Throw([M EXCEPT !.free_list_[p] = g.M.free_list_[p]], "runtime_error")

\* Memory_Pool::Allocate_Block, with the outcome of emplace_back
Allocate_BlockGrow(M, p, grow) ==
    IF grow = "ok" THEN Allocate_Block(M, p)
    ELSE EmplaceBackThrows(Allocate_Block(M, p), M, p)

\* free_list_ points into storage that belongs to no block of the pool
Dangling(M, p) ==
    M.free_list_[p] # NULL /\ M.free_list_[p] \notin PoolSlots(M, p)

\* Memory_Pool::Allocate.  Reading free_list_->next in storage that has been
\* released is undefined: the process is terminated or the read goes
\* through.
PoolAllocateGrow(M, p, grow, ub) ==
    IF M.free_list_[p] = NULL
    THEN PopAfterGrow(Allocate_BlockGrow(M, p, grow), p)
    ELSE IF Dangling(M, p) /\ ub = "abort" THEN Throw(M, "abort")
    ELSE PopFree(M, p)

PoolAllocateGrowCall(p, grow, ub) ==
    /\ ~aborted /\ alive[p]
    /\ Cardinality(Used(Mem)) < MaxHeld
    /\ AllocatorReturn("Allocate", p, PoolAllocateGrow(Mem, p, grow, ub))

InitGrow ==
    \E k \in 0..HeapBlocks : InitState({b \in BlockIds : b > HeapBlocks - k}, 0)

NextGrow ==
    \/ \E p \in Trees, grow \in GrowOutcomes, ub \in DeleteOutcomes :
          PoolAllocateGrowCall(p, grow, ub)
    \/ \E p \in Trees : \E ptr \in InUse(p) \cup {NULL} : PoolDeallocateCall(p, ptr)

SpecGrow == InitGrow /\ [][NextGrow]_vars

\* the step is an Allocate on pool p, entered with an empty free list, that
\* reports a failure of the block growth
GrowthFails(p) ==
    /\ free_list_[p] = NULL
    /\ \E grow \in GrowOutcomes, ub \in DeleteOutcomes :
          PoolAllocateGrowCall(p, grow, ub)
    /\ last'.res # "ok"

\* C22: when block growth inside Allocate fails, at the slot array or at the
\* recording of the block, the caller gets the failure and the pool is as
\* before: block list unchanged, free list head not in storage the pool
\* does not own.
C22_FailedGrowthLeavesPool ==
    [][\A p \in Trees :
          GrowthFails(p) =>
              /\ last' = Returned("Allocate", p, "runtime_error", NULL)
              /\ blocks_' = blocks_
              /\ free_list_'[p] = free_list_[p]
              /\ ~Dangling(Mem', p)]_vars

\* the slots on the free list of pool p, as a set
FreeSet(M, p) == {a \in Addr : OnFreeList(M, p, a)}

\* C23: Allocate with an empty free list adds exactly one block of
\* BlockCount slots, returns the first slot of that block and leaves exactly
\* the other BlockCount - 1 slots of the block on the free list; with a
\* non-empty free list it adds no block and returns the head of the list.
C23_AllocateGrowsByOneBlock ==
    [][\A p \in Trees :
          PoolAllocateCall(p) =>
              IF free_list_[p] = NULL
              THEN /\ Len(blocks_'[p]) = Len(blocks_[p]) + 1
                   /\ SubSeq(blocks_'[p], 1, Len(blocks_[p])) = blocks_[p]
                   /\ \A q \in Trees :
                         blocks_'[p][Len(blocks_'[p])] \notin OwnedBlocks(Mem, q)
                   /\ last' = Returned("Allocate", p, "ok",
                                       SetMin(BlockSlots(blocks_'[p][Len(blocks_'[p])])))
                   /\ FreeSet(Mem', p) =
                          BlockSlots(blocks_'[p][Len(blocks_'[p])]) \ {last'.ret}
                   /\ Len(FreeList(Mem', p)) = BlockCount - 1
              ELSE /\ blocks_' = blocks_
                   /\ last' = Returned("Allocate", p, "ok", free_list_[p])
                   /\ FreeList(Mem', p) = Tail(FreeList(Mem, p))]_vars

C23_Witness ==
    /\ last.op = "Allocate" /\ last.res = "ok"
    /\ Len(blocks_[1]) = 2
    /\ last.ret = SetMin(BlockSlots(blocks_[1][2]))
    /\ FreeSet(Mem, 1) = BlockSlots(blocks_[1][2]) \ {last.ret}
    /\ Cardinality(InUse(1)) = MaxHeld

\* C24: Insert(v) of a value held by a node increments that node's
\* duplicate counter by exactly one and changes nothing else: no node is
\* allocated, no root or child pointer changes, no other node's value or
\* duplicate counter changes.
C24_DuplicateInsertFrame ==
    [][\A t \in Trees, v \in Values :
          (Insert(t, v) /\ Holder(t, v) # NULL) =>
              /\ last' = Last("Insert", t, "ok")
              /\ count_' = [count_ EXCEPT ![Holder(t, v)] = @ + 1]
              /\ data_' = data_ /\ left_' = left_ /\ right_' = right_
              /\ root_' = root_
              /\ UNCHANGED poolVars]_vars

C24_Witness ==
    /\ Len(hist) = 4
    /\ hist[4] = Returns("Insert", 1, hist[2].v)
    /\ hist[2].op = "Insert"
    /\ Cardinality(Nodes(Mem, 1)) = 3
    /\ Holder(1, hist[2].v) # root_[1]
    /\ count_[Holder(1, hist[2].v)] = 1
    /\ count_[root_[1]] = 0

\* a returning Remove(v) that takes the node holding v out of the tree while
\* the node has at most one child
RemovesSmallNode(t, v) ==
    /\ hist' = Append(hist, Returns("Remove", t, v))
    /\ Holder(t, v) # NULL
    /\ left_[Holder(t, v)] = NULL \/ right_[Holder(t, v)] = NULL
    /\ ~HasDuplicates(Mem, Holder(t, v))

\* the pointer p as it is after node h has given its place to child c
Relinked(p, h, c) == IF p = h THEN c ELSE p

\* C25: when Remove(v) structurally removes a node with zero or one child,
\* the node's place in its parent (or the root) is taken by its only child
\* or becomes empty, the removed node is freed, and every other node keeps
\* its value, duplicate counter and subtree.
C25_SmallNodeRemoval ==
    [][\A t \in Trees, v \in Values :
          RemovesSmallNode(t, v) =>
              /\ root_'[t] = Relinked(root_[t], Holder(t, v),
                                      Replacement(Mem, Holder(t, v)))
              /\ \A a \in Nodes(Mem, t) \ {Holder(t, v)} :
                    /\ data_'[a] = data_[a]
                    /\ count_'[a] = count_[a]
                    /\ left_'[a] = Relinked(left_[a], Holder(t, v),
                                            Replacement(Mem, Holder(t, v)))
                    /\ right_'[a] = Relinked(right_[a], Holder(t, v),
                                             Replacement(Mem, Holder(t, v)))
              /\ OnFreeList(Mem', t, Holder(t, v))]_vars

\* operator==(const Tree_Iterator&) against end(): the advances did not
\* throw and current_ is that of end()
AtEnd(M, t, it) == it.err = "none" /\ it.current_ = end(M, t).current_

\* the node the iterator of tree t is on after k advances from begin()
Position(M, t, k) == Advance(M, begin(M, t), k).current_

\* C26: for a tree with N nodes an iterator obtained from begin() equals
\* end() after exactly N advances and not before, and is positioned on every
\* node exactly once on the way; for the empty tree begin() equals end().
C26_IterationBounded ==
    \A t \in Trees :
        alive[t] =>
            /\ AtEnd(Mem, t, Advance(Mem, begin(Mem, t), Cardinality(Nodes(Mem, t))))
            /\ \A k \in 0..(Cardinality(Nodes(Mem, t)) - 1) :
                  ~AtEnd(Mem, t, Advance(Mem, begin(Mem, t), k))
            /\ {Position(Mem, t, k) : k \in 0..(Cardinality(Nodes(Mem, t)) - 1)}
                   = Nodes(Mem, t)

C26_Witness ==
    /\ Cardinality(Nodes(Mem, 1)) = 3
    /\ left_[root_[1]] # NULL /\ right_[root_[1]] # NULL
    /\ Position(Mem, 1, 0) = left_[root_[1]]
    /\ Position(Mem, 1, 2) = right_[root_[1]]
    /\ AtEnd(Mem, 1, Advance(Mem, begin(Mem, 1), 3))

\* C27: after a returning Remove(v) every value w # v that Search reported
\* present before the call is still reported present, with the same
\* duplicate counter.
C27_RemoveKeepsOtherValues ==
    [][\A t \in Trees, v \in Values, w \in Values :
          (/\ hist' = Append(hist, Returns("Remove", t, v))
           /\ w # v
           /\ Search(Mem, t, w).ret)
              => /\ Search(Mem', t, w).ret
                 /\ count_'[Locate(Mem', root_'[t], w, MaxDepth)]
                        = count_[Holder(t, w)]]_vars

\* the nodes of tree t that were allocated and have not been freed
LiveNodes(M, t) == {a \in PoolSlots(M, t) : M.slot[a] = "used"}

\* C28: after any sequence of Insert and Remove calls every node that was
\* allocated and not freed is reachable from the root, and no node
\* reachable from the root has been freed.
C28_NoLeakNoDangling ==
    \A t \in Trees :
        alive[t] =>
            /\ LiveNodes(Mem, t) \subseteq Nodes(Mem, t)
            /\ \A a \in Nodes(Mem, t) : slot[a] = "used"

\* C29: total_elements_count_ never wraps: a Remove that returns is applied
\* only when the counter is at least 1, and takes it down by one.
C29_TotalNeverWraps ==
    [][\A t \in Trees, v \in Values :
          hist' = Append(hist, Returns("Remove", t, v)) =>
              /\ total_elements_count_[t] >= 1
              /\ total_elements_count_'[t] = total_elements_count_[t] - 1]_vars

\* a stacked node with its right subtree, for every node on the stack
RECURSIVE StackedRest(_, _)
StackedRest(M, stk) ==
    IF stk = <<>> THEN {}
    ELSE {Head(stk)} \cup Reach(M, M.right_[Head(stk)], MaxDepth)
                     \cup StackedRest(M, Tail(stk))

\* the nodes the iterator of tree t visits after its k-th position
ToVisit(M, t, k) ==
    {Position(M, t, j) : j \in (k + 1)..(Cardinality(Nodes(M, t)) - 1)}

\* the iterator it, positioned on a node: from the top of its stack to the
\* bottom the values ascend strictly and all exceed the current value
StackAscends(M, it) ==
    /\ \A i, j \in 1..Len(it.Node_Stack) :
          i < j => M.data_[it.Node_Stack[i]] > M.data_[it.Node_Stack[j]]
    /\ \A i \in 1..Len(it.Node_Stack) :
          M.data_[it.Node_Stack[i]] > M.data_[it.current_]

\* C30: at every position of an in-order iteration the stacked values ascend
\* strictly from top to bottom and exceed the current value, and the nodes
\* still to be visited are the right subtree of the current node plus every
\* stacked node with its right subtree.
C30_StackInvariant ==
    \A t \in Trees :
        alive[t] =>
            \A k \in 0..(Cardinality(Nodes(Mem, t)) - 1) :
                /\ Advance(Mem, begin(Mem, t), k).err = "none"
                /\ Position(Mem, t, k) # NULL
                /\ StackAscends(Mem, Advance(Mem, begin(Mem, t), k))
                /\ ToVisit(Mem, t, k) =
                       Reach(Mem, right_[Position(Mem, t, k)], MaxDepth)
                           \cup StackedRest(Mem, Advance(Mem, begin(Mem, t), k).Node_Stack)

C30_Witness ==
    /\ Cardinality(Nodes(Mem, 1)) = 3
    /\ Len(begin(Mem, 1).Node_Stack) = 2
    /\ StackAscends(Mem, begin(Mem, 1))
    /\ Len(Advance(Mem, begin(Mem, 1), 1).Node_Stack) = 1
    /\ ToVisit(Mem, 1, 1) = {root_[1]}

====
